---- MODULE Spec2Model ----
(***************************************************************************)
(* Federated dataset search of bento_federation_service:                   *)
(*   search/dataset_search/dataset_search.py                               *)
(*                                                                         *)
(* The module models                                                       *)
(*   - the query helpers (_linked_field_sets_to_join_query,                *)
(*     _augment_resolves, _combine_join_and_data_type_queries,             *)
(*     _get_array_resolve_paths) as operators over an encoding of the      *)
(*     Python values they manipulate, and                                  *)
(*   - run_search_on_dataset with its two worker pools as a state machine  *)
(*     whose steps are the stretches of code between two suspension points *)
(*     (await) of the cooperative scheduler.                               *)
(***************************************************************************)
EXTENDS Integers, Sequences, FiniteSets, TLC

(***************************************************************************)
(* Bounds of the model.                                                    *)
(***************************************************************************)
MaxTables == 2
MaxWorkers == 2

(***************************************************************************)
(* Python values.  A value is a string, the boolean True, None, or a list  *)
(* of values; each kind is a record with its own field so that values of   *)
(* different kinds are comparable.                                         *)
(***************************************************************************)
Str(s) == [str |-> s]
PyTrue == [bool |-> TRUE]
PyNone == [none |-> TRUE]
List(es) == [list |-> es]

IsList(v) == DOMAIN v = {"list"}
IsStr(v) == DOMAIN v = {"str"}

\* The strings of the model that start with the character "#".
HashStrings == {"#resolve", "#eq", "#and", "#not", "#"}

StrSeq(ss) == [i \in 1..Len(ss) |-> Str(ss[i])]

\* A sequence without its first element (Python's xs[1:]).
Rest(xs) == SubSeq(xs, 2, Len(xs))

(***************************************************************************)
(* _linked_fields_to_join_query_fragment: a field is <<data type, path>>.  *)
(***************************************************************************)
_linked_fields_to_join_query_fragment(field_1, field_2) ==
    List(<<Str("#eq"),
           List(<<Str("#resolve"), Str(field_1[1]), Str("[item]")>> \o StrSeq(field_1[2])),
           List(<<Str("#resolve"), Str(field_2[1]), Str("[item]")>> \o StrSeq(field_2[2]))>>)

RECURSIVE _linked_field_set_to_join_query_rec(_)
_linked_field_set_to_join_query_rec(pairs) ==
    IF Len(pairs) = 1
    THEN _linked_fields_to_join_query_fragment(pairs[1][1], pairs[1][2])
    ELSE List(<<Str("#and"),
                _linked_fields_to_join_query_fragment(pairs[1][1], pairs[1][2]),
                _linked_field_set_to_join_query_rec(Rest(pairs))>>)

\* A slip in the pairing: only neighbouring entries are paired.
combinations2_adjacent(items) ==
    [j \in 1..(Len(items) - 1) |-> <<items[j], items[j + 1]>>]

(***************************************************************************)
(* itertools.combinations(items, 2): the pairs <<items[i], items[j]>>,     *)
(* i < j, in lexicographic order of (i, j).                                *)
(***************************************************************************)
RECURSIVE combinations2(_)
combinations2(items) ==
    IF Len(items) < 2
    THEN <<>>
    ELSE [j \in 1..(Len(items) - 1) |-> <<items[1], items[j + 1]>>]
         \o combinations2(Rest(items))

(***************************************************************************)
(* _linked_field_sets_to_join_query: a linked field set is a dict, here    *)
(* the sequence of its items <<data type, path>> in insertion order.       *)
(***************************************************************************)
RECURSIVE _linked_field_sets_to_join_query(_, _)
_linked_field_sets_to_join_query(linked_field_sets, data_type_set) ==
    IF Len(linked_field_sets) = 0
    THEN PyNone
    ELSE LET pairs == SelectSeq(combinations2(linked_field_sets[1]),
                                LAMBDA p : p[1][1] \in data_type_set /\ p[2][1] \in data_type_set)
         IN  IF Len(pairs) = 0
             THEN PyNone
             ELSE IF Len(linked_field_sets) = 1
                  THEN _linked_field_set_to_join_query_rec(pairs)
                  ELSE List(<<Str("#and"),
                              _linked_field_set_to_join_query_rec(pairs),
                              _linked_field_sets_to_join_query(Rest(linked_field_sets),
                                                               data_type_set)>>)

(***************************************************************************)
(* _get_dataset_linked_field_sets: the "fields" of the dataset's linked    *)
(* field sets that have 2+ fields.                                         *)
(***************************************************************************)
_get_dataset_linked_field_sets(dataset) ==
    SelectSeq(dataset.linked_field_sets, LAMBDA fields : Len(fields) > 1)

\* A slip in line 73: the prefix is put after the path of the resolve.
RECURSIVE _augment_resolves_appending(_, _)
_augment_resolves_appending(query, prefix) ==
    IF \/ ~IsList(query)
       \/ Len(query.list) = 0
       \/ query.list[1].str = ""
       \/ query.list[1].str \notin HashStrings
    THEN query
    ELSE IF query.list[1] = Str("#resolve")
         THEN List(<<Str("#resolve")>> \o Rest(query.list) \o StrSeq(prefix))
         ELSE List(<<query.list[1]>>
                   \o [i \in 1..(Len(query.list) - 1) |->
                          _augment_resolves_appending(query.list[i + 1], prefix)])

(***************************************************************************)
(* _augment_resolves.  The first character of the head is "#" exactly when *)
(* the head is one of HashStrings; heads are strings.                      *)
(***************************************************************************)
RECURSIVE _augment_resolves(_, _)
_augment_resolves(query, prefix) ==
    IF \/ ~IsList(query)
       \/ Len(query.list) = 0
       \/ query.list[1].str = ""
       \/ query.list[1].str \notin HashStrings
    THEN query
    ELSE IF query.list[1] = Str("#resolve")
         THEN List(<<Str("#resolve")>> \o StrSeq(prefix) \o Rest(query.list))
         ELSE List(<<query.list[1]>>
                   \o [i \in 1..(Len(query.list) - 1) |->
                          _augment_resolves(query.list[i + 1], prefix)])

(***************************************************************************)
(* _combine_join_and_data_type_queries: data_type_queries is a dict, here  *)
(* the sequence of its items <<data type, query>> in insertion order.      *)
(***************************************************************************)
RECURSIVE _combine_join_and_data_type_queries_join_first(_, _)
\* The loop with the operands of each "#and" swapped: the join query so far
\* first, the data type's query second.
_combine_join_and_data_type_queries_join_first(join_query, data_type_queries) ==
    IF join_query = PyNone
    THEN PyNone
    ELSE IF Len(data_type_queries) = 0
         THEN join_query
         ELSE _combine_join_and_data_type_queries_join_first(
                  List(<<Str("#and"),
                         join_query,
                         _augment_resolves(data_type_queries[1][2],
                                           <<data_type_queries[1][1], "[item]">>)>>),
                  Rest(data_type_queries))

RECURSIVE _combine_join_and_data_type_queries(_, _)
_combine_join_and_data_type_queries(join_query, data_type_queries) ==
    IF join_query = PyNone
    THEN PyNone
    ELSE IF Len(data_type_queries) = 0
         THEN join_query
         ELSE _combine_join_and_data_type_queries(
                  List(<<Str("#and"),
                         _augment_resolves(data_type_queries[1][2],
                                           <<data_type_queries[1][1], "[item]">>),
                         join_query>>),
                  Rest(data_type_queries))

(***************************************************************************)
(* _get_array_resolve_paths.                                               *)
(***************************************************************************)
RECURSIVE ResolvePathsSkippingMarkers(_, _)
\* The loop with the path extended by the segments that are no [item] only.
ResolvePathsSkippingMarkers(ris, path) ==
    IF Len(ris) = 0
    THEN <<>>
    ELSE IF ris[1] = Str("[item]")
         THEN <<path>> \o ResolvePathsSkippingMarkers(Rest(ris), path)
         ELSE ResolvePathsSkippingMarkers(Rest(ris), path \o "." \o ris[1].str)

RECURSIVE ResolvePaths(_, _)
\* The loop of lines 111-114 over the resolve items ris, from the path so far.
ResolvePaths(ris, path) ==
    IF Len(ris) = 0
    THEN <<>>
    ELSE (IF ris[1] = Str("[item]") THEN <<path>> ELSE <<>>)
         \o ResolvePaths(Rest(ris), path \o "." \o ris[1].str)

RECURSIVE _get_array_resolve_paths(_)
RECURSIVE ExtendAll(_)
\* The loop of lines 117-118: the paths of the expressions es, concatenated.
ExtendAll(es) ==
    IF Len(es) = 0
    THEN <<>>
    ELSE _get_array_resolve_paths(es[1]) \o ExtendAll(Rest(es))

_get_array_resolve_paths(query) ==
    IF IsList(query) /\ Len(query.list) > 1
    THEN IF query.list[1] = Str("#resolve")
         THEN ResolvePaths(Rest(query.list), "_root")
         ELSE ExtendAll(Rest(query.list))
    ELSE <<>>

(***************************************************************************)
(* State of one call of run_search_on_dataset, and of the peers.           *)
(***************************************************************************)
VARIABLES
    WORKERS,                      \* constants.WORKERS, fixed at import
    peer_tables,                  \* the table record each peer serves, by table id
    dataset,                      \* argument: table_ownership, linked_field_sets
    join_query_arg,               \* argument join_query as passed by the caller
    data_type_queries,            \* argument: items <<data type, query>> of the dict
    include_internal_results,     \* argument
    dataset_object_schema,        \* argument, mutated in place
    join_query,                   \* the local join_query (reassigned at 265, 274)
    ic_paths_to_filter,
    table_ownerships_and_records,
    table_ownership_queue,        \* items of the discovery queue
    table_ownership_unfinished,   \* its count of items not yet task_done()
    table_definition_workers,     \* worker -> [pc, item]
    short_circuit,                \* the return of line 254 was executed
    dataset_results,
    table_pairs_queue,
    table_pairs_unfinished,
    table_search_workers,
    requests,                     \* search requests sent to peers
    responses,                    \* table id -> the response its search got
    pc,                           \* where run_search_on_dataset is
    result,                       \* its return value
    table_ownership_dequeues,     \* history: table id -> times its ownership was dequeued
    table_pairs_dequeues,         \* history: table id -> times its pair was dequeued
    call,                         \* a call of one of the query helpers
    ret                           \* and the value it returned

\* What a call is given and never assigns.
inputs == <<WORKERS, peer_tables, dataset, join_query_arg, data_type_queries,
            include_internal_results>>
fn_vars == <<call, ret>>
history == <<table_ownership_dequeues, table_pairs_dequeues>>

vars == <<inputs, dataset_object_schema, join_query, ic_paths_to_filter,
          table_ownerships_and_records, table_ownership_queue,
          table_ownership_unfinished, table_definition_workers, short_circuit,
          dataset_results, table_pairs_queue, table_pairs_unfinished,
          table_search_workers, requests, responses, pc, result, history, fn_vars>>

(***************************************************************************)
(* Inputs of the model.                                                    *)
(***************************************************************************)
DataTypes == {"A", "B", "C"}
\* Data types of the tables the peers serve.
TableDataTypes == {"A", "B"}

Resolve(path) == List(<<Str("#resolve")>> \o StrSeq(path))
\* A data type query other than the literal True.
FieldQuery == List(<<Str("#eq"), Resolve(<<"f">>), Str("v")>>)
\* A join query supplied by the caller.
SuppliedJoinQuery ==
    List(<<Str("#eq"), Resolve(<<"A", "[item]", "x">>), Resolve(<<"B", "[item]", "x">>)>>)

\* The queries a caller passes for a data type: True or a field query (for
\* B, a field query).
QueryChoices(dt) == IF dt = "B" THEN {FieldQuery} ELSE {PyTrue, FieldQuery}

\* Dicts of at most one query per data type, keys in the order A, B, C.
RECURSIVE DictsOver(_)
DictsOver(keys) ==
    IF Len(keys) = 0
    THEN {<<>>}
    ELSE LET rest == DictsOver(Rest(keys))
         IN  rest \cup {<<<<keys[1], v>>>> \o d : v \in QueryChoices(keys[1]), d \in rest}

DataTypeQueryChoices == DictsOver(<<"A", "B", "C">>)

\* The linked field sets of a dataset: none; a set of one field and a set of
\* three; two sets of two.
LinkedFieldSetChoices ==
    { <<>>,
      << << <<"A", <<"x">> >> >>,
         << <<"A", <<"x">> >>, <<"B", <<"y">> >>, <<"C", <<"z">> >> >> >>,
      << << <<"A", <<"x">> >>, <<"B", <<"y">> >> >>, << <<"B", <<"y">> >>, <<"C", <<"z">> >> >> >> }

\* The data types of the tables of a dataset of n tables, listed by data type.
TableListings(n) ==
    {dts \in [1..n -> TableDataTypes] : \A i \in 1..(n - 1) : dts[i] = "B" => dts[i + 1] = "B"}

Keys(dict) == {dict[i][1] : i \in 1..Len(dict)}
\* The position of key in a dict that holds it.
Get(dict, key) == CHOOSE i \in 1..Len(dict) : dict[i][1] = key

SeqsUpTo(S, n) == UNION {[1..k -> S] : k \in 0..n}

Worker(state, item) == [pc |-> state, item |-> item]
Idle(n) == [w \in 1..n |-> Worker("get", PyNone)]
\* A slip in lines 278 and 306: one stop marker too many.
NonesOneMore(n) == [i \in 1..(n + 1) |-> PyNone]
Nones(n) == [i \in 1..n |-> PyNone]

(***************************************************************************)
(* The peers.  Table i is served with a record {data_type, schema, id};    *)
(* a search of table i answers, on the public endpoint, a JSON value that  *)
(* is truthy or falsy, and on the private endpoint {results: [...]}.       *)
(***************************************************************************)
\* The schema of table i, and the empty dict {}.
TableSchema(i) == [schema_of_table |-> i]
EmptyDict == [empty |-> TRUE]

TableRecord(i, dt) == [data_type |-> dt, schema |-> TableSchema(i), id |-> i]
TableOwnership(i) == [service_artifact |-> "service", table_id |-> i]

PublicResponses(i) == {[table |-> i, json |-> "true"], [table |-> i, json |-> "false"]}
Truthy(r) == r.json \notin {"false", "null", "0"}
PrivateResponses(i) ==
    {[results |-> <<>>], [results |-> <<[table |-> i, record |-> 1]>>]}

(***************************************************************************)
(* Init: run_search_on_dataset has run lines 226-237 and awaits the join   *)
(* of the discovery queue (line 238).                                      *)
(***************************************************************************)
\* iterable_to_queue: a queue holding the items of the iterable, in order.
iterable_to_queue(items) == items

Init ==
    /\ WORKERS \in 1..MaxWorkers
    /\ \E dts \in UNION {TableListings(n) : n \in 0..MaxTables} :
          /\ peer_tables = [i \in 1..Len(dts) |-> TableRecord(i, dts[i])]
          /\ \E lfs \in LinkedFieldSetChoices :
                dataset = [table_ownership |-> [i \in 1..Len(dts) |-> TableOwnership(i)],
                           linked_field_sets |-> lfs]
    /\ join_query_arg \in {PyNone, SuppliedJoinQuery}
    /\ join_query = join_query_arg
    /\ data_type_queries \in DataTypeQueryChoices
    /\ include_internal_results \in BOOLEAN
    /\ dataset_object_schema = [type |-> "object", properties |-> <<>>]
    /\ ic_paths_to_filter = <<>>
    /\ table_ownerships_and_records = <<>>
    /\ table_ownership_queue = iterable_to_queue(dataset.table_ownership)
    /\ table_ownership_unfinished = Len(dataset.table_ownership)
    /\ table_definition_workers = Idle(WORKERS)
    /\ short_circuit = FALSE
    /\ dataset_results = <<>>
    /\ table_pairs_queue = <<>>
    /\ table_pairs_unfinished = 0
    /\ table_search_workers = <<>>
    /\ requests = {}
    /\ responses = <<>>
    /\ pc = "await_table_ownership_queue_join"
    /\ result = PyNone
    /\ table_ownership_dequeues = [i \in DOMAIN peer_tables |-> 0]
    /\ table_pairs_dequeues = [i \in DOMAIN peer_tables |-> 0]
    /\ call = [fn |-> "none"]
    /\ ret = PyNone

(***************************************************************************)
(* _fetch_table_definition_worker.                                         *)
(***************************************************************************)
\* The loop without the return of lines 130-132: a stop marker is taken and
\* the worker goes on.
DefinitionWorkerTakeIgnoringMarker(queue) ==
    IF queue = <<>> \/ Head(queue) = PyNone
    THEN Worker("get", PyNone)
    ELSE Worker("fetch", Head(queue))

\* The worker at "async for t in table_queue" (129-132) with a non-empty
\* queue: it takes the head, exits on None, and otherwise starts the fetch
\* of lines 136-143 and is suspended in it.
DefinitionWorkerTake(queue) ==
    IF queue = <<>>
    THEN Worker("get", PyNone)
    ELSE IF Head(queue) = PyNone
         THEN Worker("exit", PyNone)
         ELSE Worker("fetch", Head(queue))

\* The dequeue counts after the worker has taken the head of the queue.
OwnershipDequeued(queue) ==
    IF queue # <<>> /\ Head(queue) # PyNone
    THEN [table_ownership_dequeues EXCEPT ![Head(queue).table_id] = @ + 1]
    ELSE table_ownership_dequeues

FetchTableDefinitionGet(w) ==
    /\ w \in DOMAIN table_definition_workers
    /\ table_definition_workers[w].pc = "get"
    /\ table_ownership_queue # <<>>
    /\ table_definition_workers' =
          [table_definition_workers EXCEPT ![w] = DefinitionWorkerTake(table_ownership_queue)]
    /\ table_ownership_queue' = Tail(table_ownership_queue)
    /\ table_ownership_dequeues' = OwnershipDequeued(table_ownership_queue)
    /\ UNCHANGED <<inputs, fn_vars, table_pairs_dequeues, dataset_object_schema, join_query,
                   ic_paths_to_filter, table_ownerships_and_records,
                   table_ownership_unfinished, short_circuit, dataset_results,
                   table_pairs_queue, table_pairs_unfinished, table_search_workers,
                   requests, responses, pc, result>>

\* peer_fetch returns the table record: the pair is appended (136), the item
\* is marked done (147) and the worker is back at the head of its loop, where
\* it goes on without suspension if the queue holds an item.
FetchTableDefinitionReturn(w) ==
    /\ w \in DOMAIN table_definition_workers
    /\ table_definition_workers[w].pc = "fetch"
    /\ LET t == table_definition_workers[w].item
       IN  table_ownerships_and_records' =
              Append(table_ownerships_and_records,
                     [ownership |-> t, record |-> peer_tables[t.table_id]])
    /\ table_ownership_unfinished' = table_ownership_unfinished - 1
    /\ table_definition_workers' =
          [table_definition_workers EXCEPT ![w] = DefinitionWorkerTake(table_ownership_queue)]
    /\ table_ownership_queue' =
          IF table_ownership_queue = <<>> THEN <<>> ELSE Tail(table_ownership_queue)
    /\ table_ownership_dequeues' = OwnershipDequeued(table_ownership_queue)
    /\ UNCHANGED <<inputs, fn_vars, table_pairs_dequeues, dataset_object_schema, join_query,
                   ic_paths_to_filter, short_circuit, dataset_results,
                   table_pairs_queue, table_pairs_unfinished, table_search_workers,
                   requests, responses, pc, result>>

\* peer_fetch raises: the finally of 146-147 marks the item done and the
\* exception leaves the worker coroutine.
FetchTableDefinitionRaise(w) ==
    /\ w \in DOMAIN table_definition_workers
    /\ table_definition_workers[w].pc = "fetch"
    /\ table_ownership_unfinished' = table_ownership_unfinished - 1
    /\ table_definition_workers' =
          [table_definition_workers EXCEPT ![w] = Worker("raised", PyNone)]
    /\ UNCHANGED <<inputs, fn_vars, history, dataset_object_schema, join_query,
                   ic_paths_to_filter, table_ownerships_and_records,
                   table_ownership_queue, short_circuit, dataset_results,
                   table_pairs_queue, table_pairs_unfinished, table_search_workers,
                   requests, responses, pc, result>>

(***************************************************************************)
(* run_search_on_dataset, lines 240-282.                                   *)
(***************************************************************************)
\* The items of data_type_queries the loop of line 244 iterates over.
QueriesWithoutTable ==
    LET table_data_types ==
            {table_ownerships_and_records[i].record.data_type :
                 i \in 1..Len(table_ownerships_and_records)}
    IN  SelectSeq(data_type_queries, LAMBDA dt2 : dt2[1] \notin table_data_types)

\* The loop of lines 244-260 over items: whether it returned at 254, the
\* schema properties and the excluded data types when it ended.
RECURSIVE ExcludeLoopNotExcluding(_, _, _)
\* The loop without line 258: no data type is excluded.
ExcludeLoopNotExcluding(items, properties, excluded_data_types) ==
    IF Len(items) = 0
    THEN [returned |-> FALSE, properties |-> properties, excluded |-> excluded_data_types]
    ELSE IF items[1][2] # PyTrue
         THEN [returned |-> TRUE, properties |-> properties, excluded |-> excluded_data_types]
         ELSE ExcludeLoopNotExcluding(Rest(items),
                                      (items[1][1] :> [type |-> "array"]) @@ properties,
                                      excluded_data_types)

RECURSIVE ExcludeLoop(_, _, _)
ExcludeLoop(items, properties, excluded_data_types) ==
    IF Len(items) = 0
    THEN [returned |-> FALSE, properties |-> properties, excluded |-> excluded_data_types]
    ELSE IF items[1][2] # PyTrue
         THEN [returned |-> TRUE, properties |-> properties, excluded |-> excluded_data_types]
         ELSE ExcludeLoop(Rest(items),
                          (items[1][1] :> [type |-> "array"]) @@ properties,
                          excluded_data_types \cup {items[1][1]})

\* A slip in the order of lines 271 and 274: the paths are taken from the
\* query combined with the data type queries.
IcPathsOfCombinedQuery(join_query_2) ==
    IF include_internal_results
    THEN _get_array_resolve_paths(
             _combine_join_and_data_type_queries(join_query_2, data_type_queries))
    ELSE <<>>

\* Line 271, for the join query of lines 262-266.
IcPathsToFilter(join_query_2) ==
    IF include_internal_results
    THEN _get_array_resolve_paths(join_query_2)
    ELSE <<>>

\* join() of the discovery queue returns: the try block 240-274 runs and the
\* finally block 277-279 puts the stop markers; the coroutine is suspended at
\* line 282.
TableOwnershipJoined ==
    /\ pc = "await_table_ownership_queue_join"
    /\ table_ownership_unfinished = 0
    /\ LET loop == ExcludeLoop(QueriesWithoutTable, dataset_object_schema.properties, {})
           linked_field_sets == _get_dataset_linked_field_sets(dataset)
           join_query_2 ==
               IF join_query = PyNone
               THEN _linked_field_sets_to_join_query(
                        linked_field_sets, Keys(data_type_queries) \ loop.excluded)
               ELSE join_query
       IN  /\ dataset_object_schema' =
                 [dataset_object_schema EXCEPT !.properties = loop.properties]
           /\ short_circuit' = loop.returned
           /\ IF loop.returned
              THEN UNCHANGED <<join_query, ic_paths_to_filter>>
              ELSE /\ ic_paths_to_filter' = IcPathsToFilter(join_query_2)
                   /\ join_query' =
                         _combine_join_and_data_type_queries(join_query_2, data_type_queries)
    /\ table_ownership_queue' = table_ownership_queue \o Nones(WORKERS)
    /\ table_ownership_unfinished' = table_ownership_unfinished + WORKERS
    /\ pc' = "await_table_definition_workers"
    /\ UNCHANGED <<inputs, fn_vars, history, table_ownerships_and_records,
                   table_definition_workers, dataset_results, table_pairs_queue,
                   table_pairs_unfinished, table_search_workers, requests, responses,
                   result>>

\* A slip in lines 282 and 310: the await ends when one worker has ended.
FinishedOne(workers) == \E w \in DOMAIN workers : workers[w].pc \in {"exit", "raised"}
Finished(workers) == \A w \in DOMAIN workers : workers[w].pc \in {"exit", "raised"}
Raised(workers) == \E w \in DOMAIN workers : workers[w].pc = "raised"

\* The short-circuit return value of line 254.
EmptyResults ==
    [dataset_results |-> [dt2 \in Keys(data_type_queries) |-> <<>>],
     join_query |-> PyNone,
     ic_paths_to_filter |-> <<>>]

\* tornado.gen.multi of the discovery workers is done (282): it raises if a
\* worker raised; otherwise the pending return of line 254 takes place, or
\* lines 286-301 start the search pool and the coroutine awaits the join of
\* the search queue (303).
TableDefinitionWorkersDone ==
    /\ pc = "await_table_definition_workers"
    /\ Finished(table_definition_workers)
    /\ IF Raised(table_definition_workers)
       THEN /\ pc' = "raised"
            /\ UNCHANGED <<result, dataset_results, table_pairs_queue,
                           table_pairs_unfinished, table_search_workers>>
       ELSE IF short_circuit
            THEN /\ pc' = "returned"
                 /\ result' = EmptyResults
                 /\ UNCHANGED <<dataset_results, table_pairs_queue,
                                table_pairs_unfinished, table_search_workers>>
            ELSE /\ pc' = "await_table_pairs_queue_join"
                 /\ dataset_results' = <<>>
                 /\ table_pairs_queue' = iterable_to_queue(table_ownerships_and_records)
                 /\ table_pairs_unfinished' = Len(table_ownerships_and_records)
                 /\ table_search_workers' = Idle(WORKERS)
                 /\ UNCHANGED result
    /\ UNCHANGED <<inputs, fn_vars, history, dataset_object_schema, join_query,
                   ic_paths_to_filter, table_ownerships_and_records,
                   table_ownership_queue, table_ownership_unfinished,
                   table_definition_workers, short_circuit, requests, responses>>

(***************************************************************************)
(* _table_search_worker.                                                   *)
(***************************************************************************)
\* A slip in line 173: the private endpoint is taken for a join query only.
SearchRequestPrivateOnJoin(table_pair) ==
    LET private == join_query # PyNone
    IN  [service_artifact |-> table_pair.ownership.service_artifact,
         private |-> private,
         id |-> table_pair.record.id,
         query |-> data_type_queries[Get(data_type_queries,
                                         table_pair.record.data_type)][2]]

\* A slip in line 196: the composed query is sent when there is one.
SearchRequestComposed(table_pair) ==
    LET private == join_query # PyNone \/ include_internal_results
    IN  [service_artifact |-> table_pair.ownership.service_artifact,
         private |-> private,
         id |-> table_pair.record.id,
         query |-> IF join_query # PyNone
                   THEN join_query
                   ELSE data_type_queries[CHOOSE i \in 1..Len(data_type_queries) :
                            data_type_queries[i][1] = table_pair.record.data_type][2]]

\* The search request of lines 189-200 for a table pair.
SearchRequest(table_pair) ==
    LET private == join_query # PyNone \/ include_internal_results
    IN  [service_artifact |-> table_pair.ownership.service_artifact,
         private |-> private,
         id |-> table_pair.record.id,
         query |-> data_type_queries[Get(data_type_queries,
                                         table_pair.record.data_type)][2]]

\* The loop without the second condition of line 175: the schema entry of
\* the data type is written for every table.
RECURSIVE SearchWorkerTakeOverwriting(_, _, _)
SearchWorkerTakeOverwriting(queue, properties, unfinished) ==
    IF queue = <<>>
    THEN [queue |-> queue, properties |-> properties, unfinished |-> unfinished,
          worker |-> Worker("get", PyNone), sent |-> {}, taken |-> <<>>]
    ELSE IF Head(queue) = PyNone
         THEN [queue |-> Tail(queue), properties |-> properties, unfinished |-> unfinished,
               worker |-> Worker("exit", PyNone), sent |-> {}, taken |-> <<>>]
         ELSE LET table_pair == Head(queue)
                  table_data_type == table_pair.record.data_type
                  is_querying_data_type == table_data_type \in Keys(data_type_queries)
                  properties_2 ==
                      IF join_query # PyNone
                      THEN (table_data_type :>
                               [type |-> "array",
                                items |-> IF is_querying_data_type
                                          THEN table_pair.record.schema
                                          ELSE EmptyDict])
                           @@ properties
                      ELSE properties
              IN  IF ~is_querying_data_type
                  THEN [SearchWorkerTakeOverwriting(Tail(queue), properties_2, unfinished - 1)
                           EXCEPT !.taken = <<table_pair.record.id>> \o @]
                  ELSE [queue |-> Tail(queue), properties |-> properties_2,
                        unfinished |-> unfinished,
                        worker |-> Worker("fetch", table_pair),
                        sent |-> {SearchRequest(table_pair)},
                        taken |-> <<table_pair.record.id>>]

\* The worker at "async for table_pair in table_queue" (161) runs without
\* suspension until the queue is empty (it waits in get()), it takes None
\* (it exits), or it starts the fetch of a queried table (189): tables of a
\* data type that is not queried are passed over by the continue of 187,
\* after lines 175-183 and with the task_done() of 215.
RECURSIVE SearchWorkerTake(_, _, _)
SearchWorkerTake(queue, properties, unfinished) ==
    IF queue = <<>>
    THEN [queue |-> queue, properties |-> properties, unfinished |-> unfinished,
          worker |-> Worker("get", PyNone), sent |-> {}, taken |-> <<>>]
    ELSE IF Head(queue) = PyNone
         THEN [queue |-> Tail(queue), properties |-> properties, unfinished |-> unfinished,
               worker |-> Worker("exit", PyNone), sent |-> {}, taken |-> <<>>]
         ELSE LET table_pair == Head(queue)
                  table_data_type == table_pair.record.data_type
                  is_querying_data_type == table_data_type \in Keys(data_type_queries)
                  properties_2 ==
                      IF join_query # PyNone /\ table_data_type \notin DOMAIN properties
                      THEN (table_data_type :>
                               [type |-> "array",
                                items |-> IF is_querying_data_type
                                          THEN table_pair.record.schema
                                          ELSE EmptyDict])
                           @@ properties
                      ELSE properties
              IN  IF ~is_querying_data_type
                  THEN [SearchWorkerTake(Tail(queue), properties_2, unfinished - 1)
                           EXCEPT !.taken = <<table_pair.record.id>> \o @]
                  ELSE [queue |-> Tail(queue), properties |-> properties_2,
                        unfinished |-> unfinished,
                        worker |-> Worker("fetch", table_pair),
                        sent |-> {SearchRequest(table_pair)},
                        taken |-> <<table_pair.record.id>>]

\* The state after worker w, at the head of its loop, has run on.
SearchWorkerRunsOn(w, unfinished) ==
    LET take == SearchWorkerTake(table_pairs_queue, dataset_object_schema.properties,
                                 unfinished)
    IN  /\ table_pairs_queue' = take.queue
        /\ dataset_object_schema' = [dataset_object_schema EXCEPT !.properties = take.properties]
        /\ table_pairs_unfinished' = take.unfinished
        /\ table_search_workers' = [table_search_workers EXCEPT ![w] = take.worker]
        /\ requests' = requests \cup take.sent
        /\ table_pairs_dequeues' =
              [i \in DOMAIN table_pairs_dequeues |->
                  table_pairs_dequeues[i]
                  + Cardinality({k \in DOMAIN take.taken : take.taken[k] = i})]

TableSearchGet(w) ==
    /\ w \in DOMAIN table_search_workers
    /\ table_search_workers[w].pc = "get"
    /\ table_pairs_queue # <<>>
    /\ SearchWorkerRunsOn(w, table_pairs_unfinished)
    /\ UNCHANGED <<inputs, fn_vars, table_ownership_dequeues, join_query, ic_paths_to_filter,
                   table_ownerships_and_records, table_ownership_queue,
                   table_ownership_unfinished, table_definition_workers, short_circuit,
                   dataset_results, responses, pc, result>>

\* The results of a response r (202-207).
ResultsOf(private, r) ==
    IF private THEN r.results ELSE IF Truthy(r) THEN <<r>> ELSE <<>>

\* A slip in lines 209-212: the results of a data type are always replaced.
AddResultsOverwriting(results_dict, table_data_type, results) ==
    IF table_data_type \notin DOMAIN results_dict
    THEN (table_data_type :> results) @@ results_dict
    ELSE [results_dict EXCEPT ![table_data_type] = results]

\* Lines 209-212.
AddResults(results_dict, table_data_type, results) ==
    IF table_data_type \notin DOMAIN results_dict
    THEN (table_data_type :> results) @@ results_dict
    ELSE [results_dict EXCEPT ![table_data_type] = @ \o results]

\* peer_fetch returns the response r: lines 202-212 store its results, the
\* item is marked done (215) and the worker runs on from the head of its loop.
TableSearchReturn(w) ==
    /\ w \in DOMAIN table_search_workers
    /\ table_search_workers[w].pc = "fetch"
    /\ LET table_pair == table_search_workers[w].item
           private == join_query # PyNone \/ include_internal_results
       IN  \E r \in IF private THEN PrivateResponses(table_pair.record.id)
                               ELSE PublicResponses(table_pair.record.id) :
              /\ dataset_results' = AddResults(dataset_results, table_pair.record.data_type,
                                               ResultsOf(private, r))
              /\ responses' = (table_pair.record.id :> r) @@ responses
    /\ SearchWorkerRunsOn(w, table_pairs_unfinished - 1)
    /\ UNCHANGED <<inputs, fn_vars, table_ownership_dequeues, join_query, ic_paths_to_filter,
                   table_ownerships_and_records, table_ownership_queue,
                   table_ownership_unfinished, table_definition_workers, short_circuit,
                   pc, result>>

\* peer_fetch raises: the finally of 214-215 marks the item done and the
\* exception leaves the worker coroutine.
TableSearchRaise(w) ==
    /\ w \in DOMAIN table_search_workers
    /\ table_search_workers[w].pc = "fetch"
    /\ table_pairs_unfinished' = table_pairs_unfinished - 1
    /\ table_search_workers' = [table_search_workers EXCEPT ![w] = Worker("raised", PyNone)]
    /\ UNCHANGED <<inputs, fn_vars, history, dataset_object_schema, join_query,
                   ic_paths_to_filter, table_ownerships_and_records,
                   table_ownership_queue, table_ownership_unfinished,
                   table_definition_workers, short_circuit, dataset_results,
                   table_pairs_queue, requests, responses, pc, result>>

(***************************************************************************)
(* run_search_on_dataset, lines 303-315.                                   *)
(***************************************************************************)
\* join() of the search queue returns: the stop markers are put (306-307)
\* and the coroutine is suspended at line 310.
TablePairsJoined ==
    /\ pc = "await_table_pairs_queue_join"
    /\ table_pairs_unfinished = 0
    /\ table_pairs_queue' = table_pairs_queue \o Nones(WORKERS)
    /\ table_pairs_unfinished' = table_pairs_unfinished + WORKERS
    /\ pc' = "await_table_search_workers"
    /\ UNCHANGED <<inputs, fn_vars, history, dataset_object_schema, join_query,
                   ic_paths_to_filter, table_ownerships_and_records,
                   table_ownership_queue, table_ownership_unfinished,
                   table_definition_workers, short_circuit, dataset_results,
                   table_search_workers, requests, responses, result>>

\* tornado.gen.multi of the search workers is done (310): it raises if a
\* worker raised, otherwise line 315 returns.
TableSearchWorkersDone ==
    /\ pc = "await_table_search_workers"
    /\ Finished(table_search_workers)
    /\ IF Raised(table_search_workers)
       THEN /\ pc' = "raised"
            /\ UNCHANGED result
       ELSE /\ pc' = "returned"
            /\ result' = [dataset_results |-> dataset_results,
                          join_query |-> join_query,
                          ic_paths_to_filter |-> ic_paths_to_filter]
    /\ UNCHANGED <<inputs, fn_vars, history, dataset_object_schema, join_query,
                   ic_paths_to_filter, table_ownerships_and_records,
                   table_ownership_queue, table_ownership_unfinished,
                   table_definition_workers, short_circuit, dataset_results,
                   table_pairs_queue, table_pairs_unfinished, table_search_workers,
                   requests, responses>>

Next ==
    \/ \E w \in 1..MaxWorkers : FetchTableDefinitionGet(w)
    \/ \E w \in 1..MaxWorkers : FetchTableDefinitionReturn(w)
    \/ \E w \in 1..MaxWorkers : FetchTableDefinitionRaise(w)
    \/ TableOwnershipJoined
    \/ TableDefinitionWorkersDone
    \/ \E w \in 1..MaxWorkers : TableSearchGet(w)
    \/ \E w \in 1..MaxWorkers : TableSearchReturn(w)
    \/ \E w \in 1..MaxWorkers : TableSearchRaise(w)
    \/ TablePairsJoined
    \/ TableSearchWorkersDone

Spec == Init /\ [][Next]_vars

TypeOK ==
    /\ pc \in {"await_table_ownership_queue_join", "await_table_definition_workers",
               "await_table_pairs_queue_join", "await_table_search_workers",
               "returned", "raised"}
    /\ WORKERS \in 1..MaxWorkers
    /\ DOMAIN table_definition_workers = 1..WORKERS
    /\ DOMAIN table_search_workers \in {{}, 1..WORKERS}
    /\ table_ownership_unfinished \in 0..(MaxTables + MaxWorkers)
    /\ table_pairs_unfinished \in 0..(MaxTables + MaxWorkers)
    /\ table_ownership_dequeues \in [DOMAIN peer_tables -> 0..1]
    /\ table_pairs_dequeues \in [DOMAIN peer_tables -> 0..1]

(***************************************************************************)
(* Calls of the query helpers on their own: call holds the function and    *)
(* its arguments, ret the value returned.                                  *)
(***************************************************************************)
MaxSets == 2
MaxDepth == 1
MaxPrefixLen == 2

FieldPath(dt) == IF dt = "A" THEN <<"x">> ELSE IF dt = "B" THEN <<"y">> ELSE <<"z", "w">>

\* The dicts {data type: field path} over DataTypes, in every insertion order.
LinkedFieldSets ==
    {[i \in 1..Len(dts) |-> <<dts[i], FieldPath(dts[i])>>] :
        dts \in {ds \in SeqsUpTo(DataTypes, Cardinality(DataTypes)) :
                    \A i, j \in 1..Len(ds) : i # j => ds[i] # ds[j]}}

QueryLeaves ==
    {PyTrue, Str("v"), List(<<>>), List(<<Str("")>>),
     Resolve(<<"f">>), Resolve(<<"g", "[item]">>),
     List(<<Str("in"), Resolve(<<"f">>)>>)}

RECURSIVE Queries(_)
Queries(depth) ==
    IF depth = 0
    THEN QueryLeaves
    ELSE LET qs == Queries(depth - 1)
         IN  qs \cup {List(<<Str("#not"), q>>) : q \in qs}
                \cup {List(<<Str("#and"), q1, q2>>) : q1, q2 \in qs}

Prefixes == SeqsUpTo({"A", "[item]"}, MaxPrefixLen)

\* The resolve expressions over up to MaxSegments path segments.
MaxSegments == 5
Segments == {"A", "x", "y", "[item]"}
Resolves == {Resolve(path) : path \in SeqsUpTo(Segments, MaxSegments)}

\* The dicts {data type: query} over DataTypes, in every insertion order.
CombinedQueries ==
    {PyTrue, FieldQuery,
     List(<<Str("#and"), Resolve(<<"f">>),
            List(<<Str("#not"), Resolve(<<"g", "[item]">>)>>)>>)}

DataTypeQueryDicts ==
    UNION {{[i \in 1..Len(dts) |-> <<dts[i], qs[i]>>] :
                qs \in [1..Len(dts) -> CombinedQueries]} :
            dts \in {ds \in SeqsUpTo(DataTypes, Cardinality(DataTypes)) :
                        \A i, j \in 1..Len(ds) : i # j => ds[i] # ds[j]}}

Pending == [pending |-> TRUE]

\* No call of run_search_on_dataset is under way.
NoRun ==
    /\ WORKERS = 1
    /\ peer_tables = <<>>
    /\ dataset = [table_ownership |-> <<>>, linked_field_sets |-> <<>>]
    /\ join_query_arg = PyNone
    /\ join_query = PyNone
    /\ data_type_queries = <<>>
    /\ include_internal_results = FALSE
    /\ dataset_object_schema = [type |-> "object", properties |-> <<>>]
    /\ ic_paths_to_filter = <<>>
    /\ table_ownerships_and_records = <<>>
    /\ table_ownership_queue = <<>>
    /\ table_ownership_unfinished = 0
    /\ table_definition_workers = <<>>
    /\ short_circuit = FALSE
    /\ dataset_results = <<>>
    /\ table_pairs_queue = <<>>
    /\ table_pairs_unfinished = 0
    /\ table_search_workers = <<>>
    /\ requests = {}
    /\ responses = <<>>
    /\ pc = "idle"
    /\ result = PyNone
    /\ table_ownership_dequeues = <<>>
    /\ table_pairs_dequeues = <<>>

run_vars == <<inputs, dataset_object_schema, join_query, ic_paths_to_filter,
              table_ownerships_and_records, table_ownership_queue,
              table_ownership_unfinished, table_definition_workers, short_circuit,
              dataset_results, table_pairs_queue, table_pairs_unfinished,
              table_search_workers, requests, responses, pc, result, history>>

FnInit ==
    /\ NoRun
    /\ \/ /\ call \in [fn : {"_linked_field_sets_to_join_query"},
                       linked_field_sets : SeqsUpTo(LinkedFieldSets, MaxSets),
                       data_type_set : SUBSET DataTypes]
          /\ ret = Pending
       \/ /\ call \in [fn : {"_augment_resolves"},
                       query : Queries(MaxDepth),
                       prefixes : {<<>>}]
          /\ ret = call.query
       \/ /\ call \in [fn : {"_get_array_resolve_paths"},
                       query : Resolves \cup Queries(MaxDepth)
                               \cup {List(<<Str("#eq"), r1, r2>>) :
                                        r1, r2 \in {Resolve(<<"A", "[item]", "x">>),
                                                    Resolve(<<"x", "[item]", "[item]">>)}}]
          /\ ret = Pending
       \/ /\ call \in [fn : {"_combine_join_and_data_type_queries"},
                       join_query : {PyNone, SuppliedJoinQuery,
                                     List(<<Str("#and"), SuppliedJoinQuery, PyNone>>)},
                       data_type_queries : DataTypeQueryDicts]
          /\ ret = Pending

\* ret = _linked_field_sets_to_join_query(linked_field_sets, data_type_set)
LinkedFieldSetsToJoinQuery ==
    /\ call.fn = "_linked_field_sets_to_join_query"
    /\ ret = Pending
    /\ ret' = _linked_field_sets_to_join_query(call.linked_field_sets, call.data_type_set)
    /\ UNCHANGED <<call, run_vars>>

\* ret = _augment_resolves(ret, prefix): the function applied to what the
\* applications before returned.
AugmentResolves(prefix) ==
    /\ call.fn = "_augment_resolves"
    /\ Len(call.prefixes) < 2
    /\ ret' = _augment_resolves(ret, prefix)
    /\ call' = [call EXCEPT !.prefixes = Append(@, prefix)]
    /\ UNCHANGED run_vars

\* ret.paths = _get_array_resolve_paths(query)
GetArrayResolvePaths ==
    /\ call.fn = "_get_array_resolve_paths"
    /\ ret = Pending
    /\ ret' = [paths |-> _get_array_resolve_paths(call.query)]
    /\ UNCHANGED <<call, run_vars>>

\* ret = _combine_join_and_data_type_queries(join_query, data_type_queries)
CombineJoinAndDataTypeQueries ==
    /\ call.fn = "_combine_join_and_data_type_queries"
    /\ ret = Pending
    /\ ret' = _combine_join_and_data_type_queries(call.join_query,
                                                  call.data_type_queries)
    /\ UNCHANGED <<call, run_vars>>

FnNext ==
    \/ LinkedFieldSetsToJoinQuery
    \/ GetArrayResolvePaths
    \/ CombineJoinAndDataTypeQueries
    \/ \E prefix \in Prefixes : AugmentResolves(prefix)

FnSpec == FnInit /\ [][FnNext]_vars

(***************************************************************************)
(* Properties of _linked_field_sets_to_join_query.                         *)
(***************************************************************************)
IsNode(q, tag) == IsList(q) /\ Len(q.list) > 0 /\ q.list[1] = Str(tag)

\* The operands of a nest of Conjunctions, left to right.
RECURSIVE Conjuncts(_)
Conjuncts(q) ==
    IF IsNode(q, "#and") /\ Len(q.list) = 3
    THEN Conjuncts(q.list[2]) \o Conjuncts(q.list[3])
    ELSE <<q>>

Range(f) == {f[i] : i \in DOMAIN f}

\* The Equality that links entries i and j of a linked field set.
EqualityOf(fields, i, j) ==
    List(<<Str("#eq"),
           Resolve(<<fields[i][1], "[item]">> \o fields[i][2]),
           Resolve(<<fields[j][1], "[item]">> \o fields[j][2])>>)

\* The unordered pairs of entries whose data types are both in data_type_set.
SurvivingPairs(fields, data_type_set) ==
    {p \in (1..Len(fields)) \X (1..Len(fields)) :
        /\ p[1] < p[2]
        /\ fields[p[1]][1] \in data_type_set
        /\ fields[p[2]][1] \in data_type_set}

SurvivingEqualities(fields, data_type_set) ==
    {EqualityOf(fields, p[1], p[2]) : p \in SurvivingPairs(fields, data_type_set)}

JoinReturned ==
    call.fn = "_linked_field_sets_to_join_query" /\ ret # Pending

\* C9: for a single linked field set the result holds exactly one Equality
\* per unordered pair of entries whose data types are both in data_type_set,
\* comparing Resolve(dt1, [item], path1) with Resolve(dt2, [item], path2);
\* one surviving pair gives the bare Equality, and no pair gives None.
C9_OneEqualityPerPair ==
    (JoinReturned /\ Len(call.linked_field_sets) = 1) =>
        LET fields == call.linked_field_sets[1]
            pairs == SurvivingPairs(fields, call.data_type_set)
            expected == SurvivingEqualities(fields, call.data_type_set)
        IN  IF pairs = {}
            THEN ret = PyNone
            ELSE /\ Len(Conjuncts(ret)) = Cardinality(pairs)
                 /\ Range(Conjuncts(ret)) = expected
                 /\ (Cardinality(pairs) = 1 => ret \in expected)

\* A single set {A, B, C} with all three data types queried: three pairs.
C9_Witness ==
    /\ JoinReturned
    /\ Len(call.linked_field_sets) = 1
    /\ Cardinality(SurvivingPairs(call.linked_field_sets[1], call.data_type_set)) = 3
    /\ Len(Conjuncts(ret)) = 3

\* The set {A: [x], B: [y]} with data types {A, B} gives the Equality of
\* A's x and B's y.
C9_WitnessSinglePair ==
    /\ JoinReturned
    /\ call.linked_field_sets = << << <<"A", <<"x">> >>, <<"B", <<"y">> >> >> >>
    /\ call.data_type_set = {"A", "B"}
    /\ ret = List(<<Str("#eq"), Resolve(<<"A", "[item]", "x">>),
                                Resolve(<<"B", "[item]", "y">>)>>)

\* A Conjunction of q, at any depth, has None as an operand.
RECURSIVE HasAbsentOperand(_)
HasAbsentOperand(q) ==
    /\ IsList(q)
    /\ \E i \in 2..Len(q.list) :
          \/ IsNode(q, "#and") /\ q.list[i] = PyNone
          \/ HasAbsentOperand(q.list[i])

\* C8 as stated: for two or more linked field sets the result conjoins the
\* Equalities of exactly the sets that have a surviving pair; it is None only
\* when no set has one, and no Conjunction in it has an absent operand.
C8_DropsPairlessSets ==
    (JoinReturned /\ Len(call.linked_field_sets) >= 2) =>
        LET expected == UNION {SurvivingEqualities(call.linked_field_sets[k],
                                                   call.data_type_set) :
                                  k \in 1..Len(call.linked_field_sets)}
        IN  /\ (ret = PyNone) <=> (expected = {})
            /\ ret # PyNone => /\ Range(Conjuncts(ret)) = expected
                               /\ ~HasAbsentOperand(ret)

(***************************************************************************)
(* Properties of _augment_resolves.                                        *)
(***************************************************************************)
\* _augment_resolves looks into q: a list whose head starts with "#".
IsTagged(q) ==
    IsList(q) /\ Len(q.list) > 0 /\ IsStr(q.list[1]) /\ q.list[1].str \in HashStrings

\* q2 has the tag and the number of operands of q in every node of q that is
\* not a resolve, and is q where _augment_resolves does not look into q.
RECURSIVE ShapePreserved(_, _)
ShapePreserved(q, q2) ==
    IF ~IsTagged(q)
    THEN q2 = q
    ELSE IF IsNode(q, "#resolve")
         THEN IsNode(q2, "#resolve")
         ELSE /\ IsList(q2)
              /\ Len(q2.list) = Len(q.list)
              /\ q2.list[1] = q.list[1]
              /\ \A i \in 2..Len(q.list) : ShapePreserved(q.list[i], q2.list[i])

\* The prefixes applied so far, the last one first.
RECURSIVE LastFirst(_)
LastFirst(prefixes) ==
    IF Len(prefixes) = 0 THEN <<>> ELSE LastFirst(Rest(prefixes)) \o prefixes[1]

AugmentApplied(n) == call.fn = "_augment_resolves" /\ Len(call.prefixes) = n

\* C10 as stated: p1 and then p2 is one application with p1 ++ p2.
C10_TwiceIsConcatenation ==
    AugmentApplied(2) =>
        ret = _augment_resolves(call.query, call.prefixes[1] \o call.prefixes[2])

\* C10 amended: applying p1 and then p2 is one application with p2 ++ p1 (the
\* later prefix comes first), and no application changes the tag or the
\* number of operands of a node that is not a resolve.
C10_TwiceIsReversedConcatenation ==
    (call.fn = "_augment_resolves") =>
        /\ ret = _augment_resolves(call.query, LastFirst(call.prefixes))
        /\ ShapePreserved(call.query, ret)

\* Two different prefixes applied to a Conjunction of resolves.
C10_Witness ==
    /\ AugmentApplied(2)
    /\ call.prefixes = << <<"A", "[item]">>, <<"[item]">> >>
    /\ call.query = List(<<Str("#and"), Resolve(<<"f">>), Resolve(<<"g", "[item]">>)>>)
    /\ ret = List(<<Str("#and"), Resolve(<<"[item]", "A", "[item]", "f">>),
                                 Resolve(<<"[item]", "A", "[item]", "g", "[item]">>)>>)

(***************************************************************************)
(* Properties of _get_array_resolve_paths.                                 *)
(***************************************************************************)
PathsReturned == call.fn = "_get_array_resolve_paths" /\ ret # Pending

\* The path segments of a resolve expression.
SegmentsOf(query) == [i \in 1..(Len(query.list) - 1) |-> query.list[i + 1].str]

RECURSIVE Dotted(_)
\* "_root" followed by the segments, joined by dots.
Dotted(segments) ==
    IF Len(segments) = 0
    THEN "_root"
    ELSE Dotted(SubSeq(segments, 1, Len(segments) - 1))
         \o "." \o segments[Len(segments)]

RECURSIVE PathsBeforeMarkers(_, _)
\* For each [item] among the first k segments, left to right, the dotted
\* path of all the segments before it.
PathsBeforeMarkers(segments, k) ==
    IF k = 0
    THEN <<>>
    ELSE PathsBeforeMarkers(segments, k - 1)
         \o (IF segments[k] = "[item]"
             THEN <<Dotted(SubSeq(segments, 1, k - 1))>>
             ELSE <<>>)

\* C11 (as stated): _get_array_resolve_paths yields ["_root.A"] on
\* Resolve(A, [item], x) and ["_root.A", "_root.A.x"] on
\* Resolve(A, [item], x, [item], y): the path recorded at a marker leaves
\* the markers before it out.
C11_MarkersLeftOut ==
    PathsReturned =>
        /\ call.query = Resolve(<<"A", "[item]", "x">>) => ret.paths = <<"_root.A">>
        /\ call.query = Resolve(<<"A", "[item]", "x", "[item]", "y">>)
              => ret.paths = <<"_root.A", "_root.A.x">>

\* C11 (amended): on a resolve expression _get_array_resolve_paths yields one
\* path per [item] marker, left to right, each the dotted path of all the
\* segments before that marker, the earlier markers among them: ["_root.A"]
\* on Resolve(A, [item], x), ["_root.A", "_root.A.[item].x"] on
\* Resolve(A, [item], x, [item], y).
C11_MarkersKept ==
    PathsReturned =>
        /\ call.query \in Resolves
              => ret.paths = PathsBeforeMarkers(SegmentsOf(call.query),
                                          Len(SegmentsOf(call.query)))
        /\ call.query = Resolve(<<"A", "[item]", "x">>) => ret.paths = <<"_root.A">>
        /\ call.query = Resolve(<<"A", "[item]", "x", "[item]", "y">>)
              => ret.paths = <<"_root.A", "_root.A.[item].x">>

C11_Witness ==
    /\ PathsReturned
    /\ call.query = Resolve(<<"A", "[item]", "x", "[item]", "y">>)
    /\ ret.paths = <<"_root.A", "_root.A.[item].x">>

(***************************************************************************)
(* Properties of _combine_join_and_data_type_queries.                      *)
(***************************************************************************)
CombineReturned == call.fn = "_combine_join_and_data_type_queries" /\ ret # Pending

\* q2 is q with the prefix put in front of the path of every resolve that
\* _augment_resolves looks at, and nothing else changed.
RECURSIVE PrefixedBy(_, _, _)
PrefixedBy(q, q2, prefix) ==
    IF ~IsTagged(q)
    THEN q2 = q
    ELSE IF IsNode(q, "#resolve")
         THEN q2 = List(<<Str("#resolve")>> \o StrSeq(prefix) \o Rest(q.list))
         ELSE /\ IsList(q2)
              /\ Len(q2.list) = Len(q.list)
              /\ q2.list[1] = q.list[1]
              /\ \A i \in 2..Len(q.list) : PrefixedBy(q.list[i], q2.list[i], prefix)

\* What is left of q under n Conjunctions, following the second operands.
RECURSIVE Innermost(_, _)
Innermost(q, n) == IF n = 0 THEN q ELSE Innermost(q.list[3], n - 1)

\* q is a nest of n Conjunctions of two operands each, one inside the second
\* operand of the other.
RECURSIVE IsNest(_, _)
IsNest(q, n) ==
    \/ n = 0
    \/ /\ IsNode(q, "#and")
       /\ Len(q.list) = 3
       /\ IsNest(q.list[3], n - 1)

\* C17: _combine_join_and_data_type_queries returns None when the join query
\* is None; otherwise a nest of Conjunctions, one per data type of
\* data_type_queries, whose first operands are, from the innermost
\* Conjunction outwards, the data types' queries in insertion order, every
\* resolve prefixed by (data type, "[item]"), and whose innermost second
\* operand is the join query unchanged.
C17_NestInInsertionOrder ==
    CombineReturned =>
        LET n == Len(call.data_type_queries)
        IN  IF call.join_query = PyNone
            THEN ret = PyNone
            ELSE /\ IsNest(ret, n)
                 /\ Innermost(ret, n) = call.join_query
                 /\ \A k \in 1..n :
                       PrefixedBy(call.data_type_queries[k][2],
                                  Innermost(ret, n - k).list[2],
                                  <<call.data_type_queries[k][1], "[item]">>)

C17_Witness ==
    /\ CombineReturned
    /\ call.join_query = SuppliedJoinQuery
    /\ call.data_type_queries = << <<"B", FieldQuery>>, <<"A", PyTrue>>, <<"C", FieldQuery>> >>
    /\ ret = List(<<Str("#and"),
                    List(<<Str("#eq"), Resolve(<<"C", "[item]", "f">>), Str("v")>>),
                    List(<<Str("#and"), PyTrue,
                           List(<<Str("#and"),
                                  List(<<Str("#eq"), Resolve(<<"B", "[item]", "f">>), Str("v")>>),
                                  SuppliedJoinQuery>>)>>)>>)

C17_WitnessAbsent ==
    /\ CombineReturned
    /\ call.join_query = PyNone
    /\ Len(call.data_type_queries) = 2

(***************************************************************************)
(* Fairness: the event loop runs every coroutine that can run, and every   *)
(* fetch ends, with a response or with an error (a timeout at the latest). *)
(***************************************************************************)
Fairness ==
    /\ \A w \in 1..MaxWorkers :
          /\ WF_vars(FetchTableDefinitionGet(w))
          /\ WF_vars(FetchTableDefinitionReturn(w) \/ FetchTableDefinitionRaise(w))
          /\ WF_vars(TableSearchGet(w))
          /\ WF_vars(TableSearchReturn(w) \/ TableSearchRaise(w))
    /\ WF_vars(TableOwnershipJoined)
    /\ WF_vars(TableDefinitionWorkersDone)
    /\ WF_vars(TablePairsJoined)
    /\ WF_vars(TableSearchWorkersDone)

FairSpec == Spec /\ Fairness

\* The calls in which no peer fetch fails: every peer_fetch returns.
NoFailNext ==
    \/ \E w \in 1..MaxWorkers : FetchTableDefinitionGet(w)
    \/ \E w \in 1..MaxWorkers : FetchTableDefinitionReturn(w)
    \/ TableOwnershipJoined
    \/ TableDefinitionWorkersDone
    \/ \E w \in 1..MaxWorkers : TableSearchGet(w)
    \/ \E w \in 1..MaxWorkers : TableSearchReturn(w)
    \/ TablePairsJoined
    \/ TableSearchWorkersDone

NoFailFairness ==
    /\ \A w \in 1..MaxWorkers :
          /\ WF_vars(FetchTableDefinitionGet(w))
          /\ WF_vars(FetchTableDefinitionReturn(w))
          /\ WF_vars(TableSearchGet(w))
          /\ WF_vars(TableSearchReturn(w))
    /\ WF_vars(TableOwnershipJoined)
    /\ WF_vars(TableDefinitionWorkersDone)
    /\ WF_vars(TablePairsJoined)
    /\ WF_vars(TableSearchWorkersDone)

NoFailSpec == Init /\ [][NoFailNext]_vars /\ NoFailFairness

(***************************************************************************)
(* Properties of run_search_on_dataset and its worker pools.               *)
(***************************************************************************)
TableDataTypesFound ==
    {table_ownerships_and_records[i].record.data_type :
        i \in 1..Len(table_ownerships_and_records)}

QueryOf(dt) == data_type_queries[Get(data_type_queries, dt)][2]

Over == pc \in {"returned", "raised"}
DiscoveryOver == pc # "await_table_ownership_queue_join"

\* A peer fetch of this call has raised.
FetchFailed == Raised(table_definition_workers) \/ Raised(table_search_workers)

\* C1 as stated: the returned results have a key for every data type of
\* data_type_queries; a queried data type without a table whose query is
\* True is mapped to [].
C1_EveryQueriedDataTypeIsAKey ==
    pc = "returned" =>
        \A dt \in Keys(data_type_queries) : dt \in DOMAIN result.dataset_results

\* Some queried data type has no discovered table and a query that is not True.
Unsatisfiable ==
    \E dt \in Keys(data_type_queries) :
        dt \notin TableDataTypesFound /\ QueryOf(dt) # PyTrue

IsEmptyResult(r) ==
    /\ r # PyNone
    /\ DOMAIN r.dataset_results = Keys(data_type_queries)
    /\ \A dt \in Keys(data_type_queries) : r.dataset_results[dt] = <<>>
    /\ r.join_query = PyNone
    /\ r.ic_paths_to_filter = <<>>

\* C2 as stated: when some queried data type has no discovered table and a
\* query other than True, the call ends by returning ({dt: []}, None, []) as
\* a normal result, and no search request is sent.
C2_UnsatisfiableReturnsEmpty ==
    (DiscoveryOver /\ Unsatisfiable) =>
        /\ requests = {}
        /\ Over => (pc = "returned" /\ IsEmptyResult(result))

\* What C2 says, in the calls in which no fetch raised.
UnsatisfiableReturnsEmptyUnlessFetchFailed ==
    (DiscoveryOver /\ Unsatisfiable) =>
        /\ requests = {}
        /\ Over => (FetchFailed \/ (pc = "returned" /\ IsEmptyResult(result)))

\* C3 as stated: whatever fetches fail, every queued item is marked complete
\* and the join() of each queue is reached.
C3_JoinReached ==
    /\ (pc = "await_table_ownership_queue_join") ~> (pc # "await_table_ownership_queue_join")
    /\ (pc = "await_table_pairs_queue_join") ~> (pc # "await_table_pairs_queue_join")

\* C4 as stated: a failed fetch is a failure of its item only; the call goes
\* on and returns, it does not end by raising.
C4_FetchFailureDoesNotAbort ==
    FetchFailed => pc # "raised"

StopMarkersConsumed(workers) ==
    Cardinality({w \in DOMAIN workers : workers[w].pc = "exit"})

\* C5 as stated: after every return both queues are empty and each pool has
\* consumed exactly WORKERS stop markers.
C5_BothPoolsStopped ==
    pc = "returned" =>
        /\ table_ownership_queue = <<>>
        /\ table_pairs_queue = <<>>
        /\ StopMarkersConsumed(table_definition_workers) = WORKERS
        /\ StopMarkersConsumed(table_search_workers) = WORKERS

\* C5 amended: after every return the discovery queue is empty and the
\* discovery pool has consumed exactly WORKERS stop markers; so has the search
\* pool, with its queue empty, unless the return is the short-circuit return,
\* where the search pool was never started: it has no worker, no stop marker
\* was put on its queue and no search request was sent.
C5_PoolsStoppedOrNeverStarted ==
    pc = "returned" =>
        /\ table_ownership_queue = <<>>
        /\ StopMarkersConsumed(table_definition_workers) = WORKERS
        /\ table_pairs_queue = <<>>
        /\ IF short_circuit
           THEN /\ table_search_workers = <<>>
                /\ table_pairs_unfinished = 0
                /\ requests = {}
           ELSE StopMarkersConsumed(table_search_workers) = WORKERS

\* A full search by two workers of each pool over two tables has returned.
C5_Witness ==
    /\ pc = "returned"
    /\ ~short_circuit
    /\ WORKERS = 2
    /\ Cardinality(requests) = 2
    /\ StopMarkersConsumed(table_search_workers) = 2

\* The short-circuit return, with a table discovered.
C5_WitnessShortCircuit ==
    /\ pc = "returned"
    /\ short_circuit
    /\ Len(table_ownerships_and_records) > 0
    /\ StopMarkersConsumed(table_definition_workers) = WORKERS

\* C6 as stated: when a join query is in effect, the body of every search
\* request is the composed query.
C6_ComposedQuerySent ==
    \A r \in requests : join_query # PyNone => r.query = join_query

\* C6 amended: the body of every search request is the query that
\* data_type_queries holds for the data type of the table searched, as it was
\* passed in, whether or not a join query is in effect; and when the call
\* returns past the search, every table of a queried data type was sent one.
C6_DataTypeQuerySent ==
    /\ \A r \in requests :
          /\ peer_tables[r.id].data_type \in Keys(data_type_queries)
          /\ r.query = QueryOf(peer_tables[r.id].data_type)
    /\ (pc = "returned" /\ ~short_circuit) =>
          \A i \in DOMAIN peer_tables :
              peer_tables[i].data_type \in Keys(data_type_queries) =>
                  \E r \in requests : r.id = i

\* A search request sent while a join query is in effect.
C6_Witness ==
    \E r \in requests :
        /\ join_query # PyNone
        /\ r.private
        /\ r.query = FieldQuery

\* The number of elements of a result list that come from table i.
CountFrom(list, i) == Cardinality({k \in 1..Len(list) : list[k].table = i})

PublicMode == join_query = PyNone /\ ~include_internal_results

\* The tables of a data type whose search response was truthy.
Matched(dt) ==
    {i \in DOMAIN responses : peer_tables[i].data_type = dt /\ Truthy(responses[i])}

\* C7: in public mode, when the call returns, the result list of a data type
\* holds one marker for each of its tables whose response was truthy and
\* nothing else, and every table of a queried data type was searched.
C7_OneMarkerPerMatch ==
    (pc = "returned" /\ PublicMode) =>
        /\ \A dt \in DOMAIN result.dataset_results :
              /\ Len(result.dataset_results[dt]) = Cardinality(Matched(dt))
              /\ \A i \in DOMAIN peer_tables :
                    CountFrom(result.dataset_results[dt], i)
                        = IF i \in Matched(dt) THEN 1 ELSE 0
        /\ \A i \in DOMAIN responses :
              peer_tables[i].data_type \in DOMAIN result.dataset_results
        /\ ~short_circuit =>
              \A i \in DOMAIN peer_tables :
                  peer_tables[i].data_type \in Keys(data_type_queries) =>
                      i \in DOMAIN responses

\* Two tables of one data type, one that matched and one that did not.
C7_Witness ==
    /\ pc = "returned"
    /\ PublicMode
    /\ \E i, j \in DOMAIN responses :
          /\ peer_tables[i].data_type = peer_tables[j].data_type
          /\ Truthy(responses[i])
          /\ ~Truthy(responses[j])
          /\ Len(result.dataset_results[peer_tables[i].data_type]) = 1

\* Two tables of one data type that both matched.
C7_WitnessTwoMatches ==
    /\ pc = "returned"
    /\ PublicMode
    /\ \E dt \in DOMAIN result.dataset_results : Len(result.dataset_results[dt]) = 2


(***************************************************************************)
(* Excluded data types (lines 244-266).                                    *)
(***************************************************************************)
\* The Equality nodes of a query.
RECURSIVE EqualitiesIn(_)
EqualitiesIn(q) ==
    IF ~IsList(q)
    THEN {}
    ELSE (IF IsNode(q, "#eq") THEN {q} ELSE {})
         \cup UNION {EqualitiesIn(q.list[i]) : i \in 1..Len(q.list)}

\* The Equality eq has an operand that resolves a field of data type dt.
ResolvesFieldOf(eq, dt) ==
    \E i \in 2..Len(eq.list) :
        /\ IsNode(eq.list[i], "#resolve")
        /\ Len(eq.list[i].list) > 1
        /\ eq.list[i].list[2] = Str(dt)

\* The queried data types that were excluded: no table discovered, and the
\* loop of line 244 did not return.
Excluded ==
    IF DiscoveryOver /\ ~short_circuit
    THEN {dt \in Keys(data_type_queries) : dt \notin TableDataTypesFound}
    ELSE {}

\* C12: once the try block has run without the short-circuit, a queried data
\* type without a discovered table (its query is True) has the bare schema
\* entry {type: array} from then on, and a join query synthesized from the
\* linked field sets holds no Equality that resolves a field of it, also not
\* after it was combined with the data type queries.
C12_ExcludedDataType ==
    \A dt \in Excluded :
        /\ QueryOf(dt) = PyTrue
        /\ dt \in DOMAIN dataset_object_schema.properties
        /\ dataset_object_schema.properties[dt] = [type |-> "array"]
        /\ join_query_arg = PyNone =>
              \A eq \in EqualitiesIn(join_query) : ~ResolvesFieldOf(eq, dt)

C12_Witness ==
    /\ pc = "returned"
    /\ Excluded = {"C"}
    /\ join_query_arg = PyNone
    /\ \E k \in 1..Len(dataset.linked_field_sets) :
          {"A", "B", "C"} \subseteq Keys(dataset.linked_field_sets[k])
    /\ \E eq \in EqualitiesIn(result.join_query) :
          ResolvesFieldOf(eq, "A") /\ ResolvesFieldOf(eq, "B")
    /\ dataset_object_schema.properties["C"] = [type |-> "array"]

(***************************************************************************)
(* The shared results map (lines 202-212).                                 *)
(***************************************************************************)
\* The results in list that come from table i, in order.
ResultsFrom(list, i) == SelectSeq(list, LAMBDA e : e.table = i)

\* The tables of data type dt.
TablesOf(dt) == {i \in DOMAIN peer_tables : peer_tables[i].data_type = dt}

\* The search runs on the private endpoint.
Private == join_query # PyNone \/ include_internal_results

\* C13: when the call returns after the search pool has run, every table of
\* a queried data type was answered, and the result list of each queried data
\* type with a table is the multiset union of the results its tables
\* returned: the results of each of its tables are in it once, in the order
\* returned, and nothing else is in it.
C13_ResultsAreUnion ==
    (pc = "returned" /\ ~short_circuit) =>
        \A dt \in Keys(data_type_queries) :
            /\ TablesOf(dt) \subseteq DOMAIN responses
            /\ TablesOf(dt) # {} =>
                  /\ dt \in DOMAIN result.dataset_results
                  /\ \A e \in Range(result.dataset_results[dt]) : e.table \in TablesOf(dt)
                  /\ \A i \in TablesOf(dt) :
                        ResultsFrom(result.dataset_results[dt], i)
                            = ResultsOf(Private, responses[i])

C13_Witness ==
    /\ pc = "returned"
    /\ Private
    /\ WORKERS = 2
    /\ TablesOf("A") = {1, 2}
    /\ "A" \in DOMAIN result.dataset_results
    /\ result.dataset_results["A"]
          = <<[table |-> 2, record |-> 1], [table |-> 1, record |-> 1]>>

(***************************************************************************)
(* The stop marker protocol of the two pools (lines 129-132, 161-164,      *)
(* 238, 278-279, 303-307).                                                 *)
(***************************************************************************)
\* The stop markers in a queue.
Markers(queue) == Cardinality({k \in DOMAIN queue : queue[k] = PyNone})

\* No real item of the queue is behind a stop marker.
MarkersLast(queue) ==
    \A k \in DOMAIN queue : queue[k] = PyNone => \A j \in k..Len(queue) : queue[j] = PyNone

\* The search pool was started, and its stop markers were put.
SearchStarted == table_search_workers # <<>>
SearchMarkersPut == SearchStarted /\ pc # "await_table_pairs_queue_join"

\* The tables whose pair was discovered: the real items of the search queue.
Discovered ==
    {table_ownerships_and_records[k].record.id : k \in DOMAIN table_ownerships_and_records}

C14_Discovery ==
    /\ \A i \in DOMAIN peer_tables : table_ownership_dequeues[i] <= 1
    /\ MarkersLast(table_ownership_queue)
    /\ Markers(table_ownership_queue) + StopMarkersConsumed(table_definition_workers)
          = IF DiscoveryOver THEN WORKERS ELSE 0
    /\ DiscoveryOver =>
          /\ \A i \in DOMAIN peer_tables : table_ownership_dequeues[i] = 1
          /\ \A w \in DOMAIN table_definition_workers :
                table_definition_workers[w].pc # "fetch"
          /\ table_ownership_unfinished = WORKERS

C14_Search ==
    /\ \A i \in DOMAIN peer_tables : table_pairs_dequeues[i] <= 1
    /\ MarkersLast(table_pairs_queue)
    /\ Markers(table_pairs_queue) + StopMarkersConsumed(table_search_workers)
          = IF SearchMarkersPut THEN WORKERS ELSE 0
    /\ SearchMarkersPut =>
          /\ \A i \in Discovered : table_pairs_dequeues[i] = 1
          /\ \A w \in DOMAIN table_search_workers : table_search_workers[w].pc # "fetch"
          /\ table_pairs_unfinished = WORKERS

\* A worker that has taken a stop marker has exited and takes nothing more,
\* and once the stop markers of a pool are put no real item is dequeued.
C14_Step ==
    /\ \A w \in DOMAIN table_definition_workers :
          table_definition_workers[w].pc = "exit"
              => table_definition_workers'[w] = table_definition_workers[w]
    /\ \A w \in DOMAIN table_search_workers :
          table_search_workers[w].pc = "exit"
              => table_search_workers'[w] = table_search_workers[w]
    /\ DiscoveryOver => table_ownership_dequeues' = table_ownership_dequeues
    /\ SearchMarkersPut => table_pairs_dequeues' = table_pairs_dequeues

\* C14: in each pool the stop markers are put only when every real item was
\* dequeued, by one worker each, and marked complete, and exactly WORKERS of
\* them are put; no item is ever dequeued twice; a worker that takes a stop
\* marker exits, so no worker takes a second one, and no real item is
\* dequeued after a stop marker.
C14_StopMarkersAfterItems ==
    [](C14_Discovery /\ C14_Search) /\ [][C14_Step]_vars

C14_Witness ==
    /\ pc = "returned"
    /\ WORKERS = 2
    /\ Len(peer_tables) = 2
    /\ SearchStarted
    /\ StopMarkersConsumed(table_definition_workers) = 2
    /\ StopMarkersConsumed(table_search_workers) = 2
    /\ \A i \in DOMAIN peer_tables :
          table_ownership_dequeues[i] = 1 /\ table_pairs_dequeues[i] = 1

(***************************************************************************)
(* The endpoint of the search requests (lines 167-200).                    *)
(***************************************************************************)
\* The tables of the data types that are queried.
QueriedTables ==
    {i \in DOMAIN peer_tables : peer_tables[i].data_type \in Keys(data_type_queries)}

\* C15: every search request goes to the private endpoint if a join query is
\* in effect or internal results are requested, and to the public endpoint
\* otherwise; a table of a queried data type is sent its request when a
\* search worker takes it from the queue, also when there is no join query
\* and no internal results are requested, so that at the return every
\* queried table was searched on the public endpoint then; a table of a data
\* type that is not queried is never sent a request.
C15_EndpointOfRequests ==
    /\ \A r \in requests :
          /\ r.id \in QueriedTables
          /\ r.private = (join_query # PyNone \/ include_internal_results)
    /\ \A i \in QueriedTables :
          table_pairs_dequeues[i] = 1 => \E r \in requests : r.id = i
    /\ (pc = "returned" /\ ~short_circuit /\ PublicMode) =>
          \A i \in QueriedTables : \E r \in requests : r.id = i /\ ~r.private

C15_Witness ==
    /\ pc = "returned"
    /\ PublicMode
    /\ Len(peer_tables) = 2
    /\ QueriedTables = {1}
    /\ table_pairs_dequeues[2] = 1
    /\ \E r \in requests : r.id = 1 /\ ~r.private
    /\ \A r \in requests : r.id # 2

C15_WitnessPrivate ==
    /\ pc = "returned"
    /\ join_query = PyNone
    /\ include_internal_results
    /\ \E r \in requests : r.private

(***************************************************************************)
(* The array resolve paths returned (lines 262-274).                       *)
(***************************************************************************)
\* The join query before it is combined with the data type queries: the one
\* supplied, or the one made of the linked field sets over the data types
\* that are queried and not excluded.
JoinQueryInIsolation ==
    IF join_query_arg # PyNone
    THEN join_query_arg
    ELSE _linked_field_sets_to_join_query(
             _get_dataset_linked_field_sets(dataset),
             Keys(data_type_queries) \ Excluded)

\* The paths "_root.<data type>" a query of data_type_queries contributes
\* once it is prefixed with (data type, "[item]").
PathsOfDataTypeQueries ==
    {"_root." \o data_type_queries[k][1] :
        k \in {j \in DOMAIN data_type_queries :
                  _get_array_resolve_paths(
                      _augment_resolves(data_type_queries[j][2],
                                        <<data_type_queries[j][1], "[item]">>)) # <<>>}}

\* C16: the array resolve paths returned are those of the join query, supplied
\* or synthesized, as it was before it was combined with the data type
\* queries, when internal results are requested; they are the empty list when
\* internal results are not requested or no join query is returned.
C16_PathsOfIsolatedJoinQuery ==
    pc = "returned" =>
        /\ result.ic_paths_to_filter =
              IF include_internal_results /\ ~short_circuit
              THEN _get_array_resolve_paths(JoinQueryInIsolation)
              ELSE <<>>
        /\ (~include_internal_results \/ result.join_query = PyNone)
              => result.ic_paths_to_filter = <<>>

\* Internal results with a supplied join query on A and B and field queries
\* on A and B: the paths returned are the two of the join query, the
\* combined query returned has those of the field queries as well.
C16_Witness ==
    /\ pc = "returned"
    /\ include_internal_results
    /\ join_query_arg = SuppliedJoinQuery
    /\ PathsOfDataTypeQueries = {"_root.A", "_root.B"}
    /\ result.ic_paths_to_filter = <<"_root.A", "_root.B">>
    /\ Len(_get_array_resolve_paths(result.join_query)) = 4

(***************************************************************************)
(* The shared schema while the search pool runs (lines 175-187).           *)
(***************************************************************************)
\* The tables whose pair is dequeued in this step.
DequeuedNow ==
    {i \in DOMAIN peer_tables : table_pairs_dequeues'[i] > table_pairs_dequeues[i]}

\* A step taken once the search pool is started: every entry of the schema
\* stays as it is; an entry is new only if a join query is in effect, and it
\* is then the array schema of a table of that data type dequeued in this
\* step, with the table's schema as items if the data type is queried and
\* {} if it is not; without a join query the schema does not change.
C18_Step ==
    LET properties   == dataset_object_schema.properties
        properties_2 == dataset_object_schema'.properties
    IN  SearchStarted =>
            /\ \A dt \in DOMAIN properties :
                  dt \in DOMAIN properties_2 /\ properties_2[dt] = properties[dt]
            /\ \A dt \in DOMAIN properties_2 \ DOMAIN properties :
                  /\ join_query # PyNone
                  /\ \E i \in DequeuedNow :
                        /\ peer_tables[i].data_type = dt
                        /\ properties_2[dt] =
                              [type |-> "array",
                               items |-> IF dt \in Keys(data_type_queries)
                                         THEN peer_tables[i].schema
                                         ELSE EmptyDict]
            /\ join_query = PyNone => dataset_object_schema' = dataset_object_schema

\* C18: under every interleaving the search workers insert a schema entry
\* for a data type only when a join query is in effect and the data type has
\* no entry yet, with the table's schema as item schema if the data type is
\* queried and the empty schema otherwise; they never overwrite an entry,
\* the bare array entry of an excluded data type included; and with no join
\* query in effect the search pool leaves the schema unchanged.
C18_EntriesInsertedOnce == [][C18_Step]_vars

\* Both tables of A were dequeued with a join query in effect and C excluded:
\* A has the schema of the table dequeued first, C its bare entry.
C18_Witness ==
    /\ SearchStarted
    /\ join_query # PyNone
    /\ TablesOf("A") = {1, 2}
    /\ table_pairs_dequeues[1] = 1 /\ table_pairs_dequeues[2] = 1
    /\ DOMAIN dataset_object_schema.properties = {"A", "C"}
    /\ dataset_object_schema.properties["A"]
          = [type |-> "array", items |-> TableSchema(1)]
    /\ dataset_object_schema.properties["C"] = [type |-> "array"]

\* A table of a data type that is not queried was dequeued with a join query
\* in effect: its entry has the empty item schema.
C18_WitnessNotQueried ==
    /\ SearchStarted
    /\ "B" \in DOMAIN dataset_object_schema.properties
    /\ "B" \notin Keys(data_type_queries)
    /\ dataset_object_schema.properties["B"] = [type |-> "array", items |-> EmptyDict]

(***************************************************************************)
(* The search pool starts when discovery is over (lines 234-238, 276-301). *)
(***************************************************************************)
\* Every ownership was dequeued and marked complete, the stop markers of the
\* discovery pool were put and each discovery worker has taken one and left.
DiscoveryEnded ==
    /\ pc # "await_table_ownership_queue_join"
    /\ \A i \in DOMAIN peer_tables : table_ownership_dequeues[i] = 1
    /\ table_ownership_unfinished = WORKERS
    /\ table_ownership_queue = <<>>
    /\ DOMAIN table_definition_workers = 1..WORKERS
    /\ \A w \in 1..WORKERS : table_definition_workers[w].pc = "exit"

\* C19: the search pool exists, and a search request was sent, only when
\* discovery has ended; from then on the list of pairs does not change.
C19_SearchAfterDiscovery ==
    /\ []((SearchStarted \/ requests # {}) => DiscoveryEnded)
    /\ [][SearchStarted =>
            table_ownerships_and_records' = table_ownerships_and_records]_vars

C19_Witness ==
    /\ WORKERS = 2
    /\ Len(table_ownerships_and_records) = 2
    /\ \E w \in DOMAIN table_search_workers : table_search_workers[w].pc = "fetch"
    /\ requests # {}
    /\ DiscoveryEnded

(***************************************************************************)
(* Termination (lines 125-315).                                            *)
(***************************************************************************)
\* The pool has been stopped: its queue is empty and its WORKERS workers
\* have each taken a stop marker and left.
PoolStopped(queue, workers) ==
    /\ queue = <<>>
    /\ DOMAIN workers = 1..WORKERS
    /\ \A w \in 1..WORKERS : workers[w].pc = "exit"

\* C20: in every fair run of a call in which every peer fetch returns, for 0 to
\* MaxTables table ownerships and 1 to MaxWorkers workers, the call returns;
\* when it has returned the join() of the discovery queue was passed and the
\* discovery pool is stopped, and so is the search pool with its join()
\* passed and every pair dequeued, if it was started.
C20_ReturnsWhenNoFetchFails ==
    /\ <>(pc = "returned")
    /\ [](pc = "returned" =>
            /\ DiscoveryEnded
            /\ PoolStopped(table_ownership_queue, table_definition_workers)
            /\ SearchStarted =>
                  /\ PoolStopped(table_pairs_queue, table_search_workers)
                  /\ \A i \in DOMAIN peer_tables : table_pairs_dequeues[i] = 1
            /\ SearchStarted = ~short_circuit)

\* A call on a dataset without tables has returned past both pools.
C20_Witness ==
    /\ pc = "returned"
    /\ Len(peer_tables) = 0
    /\ WORKERS = 2
    /\ SearchStarted
    /\ PoolStopped(table_pairs_queue, table_search_workers)

C20_WitnessFullPools ==
    /\ pc = "returned"
    /\ Len(peer_tables) = 2
    /\ WORKERS = 1
    /\ PoolStopped(table_pairs_queue, table_search_workers)
====
